---- MODULE Spec2Model ----
(***************************************************************************)
(* The multi-level feedback-queue scheduler of code/threads/scheduler.cc.  *)
(* Thread handles are the integers 1 and 2, NULL is 0.  The three          *)
(* ready lists L[1], L[2], L[3] are sequences of thread handles.  The      *)
(* fields of a Thread the scheduler reads or writes (priority, execution   *)
(* time, used time, status) are functions over the handles.                *)
(***************************************************************************)
EXTENDS Integers, Sequences, FiniteSets, TLC

\* ---- bounds of the model ------------------------------------------------
MaxQueued == 2
MaxWaited == 2

\* ---- constants of the program -------------------------------------------
IntMax == 2147483647
L1Threshold == 100
L2Threshold == 50
MaxPriorityInit == -1

NULL == 0
Threads == {1, 2}

\* Values a thread's priority takes in the model: both band boundaries from
\* either side and one value below findNextL2's starting maximum.
Priorities == {-1, 49, 50, 99, 100}

\* Priorities of the threads ReadyToRun admits when only the admission is
\* looked at: those above, and values a whole band away from the thresholds.
AdmittedPriorities == Priorities \cup {-50, 149, 150}

\* Values a thread's execution-time estimate takes: two ordinary bursts and
\* findNextL1's starting minimum.
Estimates == {3, 5, IntMax}

TimesUsed == {0, 1}

\* Values of the argument of incTickToThreads.
Amounts == {0, 1, 5}

IntOff == "IntOff"
IntOn == "IntOn"

JUST_CREATED == "JUST_CREATED"
RUNNING == "RUNNING"
READY == "READY"

VARIABLES
    L,              \* L[1..3]: the ready lists
    priority,       \* Thread::getPriority()
    executionTime,  \* Thread::getExecutionTime()
    timeUsed,       \* Thread::getTimeUsed()
    lastTick,       \* Thread::getLastTick()
    tickWaited,     \* the wait counter Thread::incTickWaited() advances
    status,         \* Thread::setStatus()
    currentThread,  \* kernel->currentThread
    toBeDestroyed,  \* Scheduler::toBeDestroyed
    destroyed,      \* thread handles that were deleted
    deleteCount,    \* how many times each handle was deleted
    dirty,          \* Scheduler::dirty
    level,          \* kernel->interrupt->getLevel()
    inSwitch,       \* TRUE between SWITCH and the resumed side of Run
    aborted,        \* an ASSERT failed
    op,             \* the operation that made the last step ("env": a caller's)
    ret,            \* its return value (NULL if none)
    log             \* the event records it wrote to the dump file or cout

vars == <<L, priority, executionTime, timeUsed, lastTick, tickWaited, status,
          currentThread, toBeDestroyed, destroyed, deleteCount, dirty, level,
          inSwitch, aborted, op, ret, log>>

\* ---- List<Thread*> -------------------------------------------------------
IsInList(list, item) == \E i \in 1..Len(list) : list[i] = item

Occurrences(list, item) == Cardinality({i \in 1..Len(list) : list[i] = item})

FirstIndex(list, item) == CHOOSE i \in 1..Len(list) :
    /\ list[i] = item
    /\ \A j \in 1..(i - 1) : list[j] # item

\* List::Remove takes out the first element equal to item.
Remove(list, item) ==
    IF ~IsInList(list, item) THEN list
    ELSE LET k == FirstIndex(list, item)
         IN  SubSeq(list, 1, k - 1) \o SubSeq(list, k + 1, Len(list))

\* for (it(temp)) list->Remove(it.Item())
RECURSIVE RemoveAll(_, _)
RemoveAll(list, temp) ==
    IF temp = <<>> THEN list
    ELSE RemoveAll(Remove(list, Head(temp)), Tail(temp))

Queued == Len(L[1]) + Len(L[2]) + Len(L[3])

InAnyQueue(t) == IsInList(L[1], t) \/ IsInList(L[2], t) \/ IsInList(L[3], t)

\* ---- the event records ----------------------------------------------------
\* a / b as C++ computes it for int operands (the quotient truncated toward 0)
CDiv(a, b) == IF a >= 0 THEN a \div b ELSE -((-a) \div b)

\* the queue number the "is inserting into queue L" record prints
LogBand(prio) == 3 - CDiv(prio, 50)

Inserting(thread, band) == <<"inserting", thread, band>>

Removed(thread, band) == <<"removed", thread, band>>

Selected(thread) == <<"selected", thread, 0>>

Replaced(thread) == <<"replaced", thread, 0>>

\* ---- selection ------------------------------------------------------------
\* the comparison of findNextL1's scan
ShorterBurst(burst, min_burst) == burst < min_burst

\* the comparison of findNextL2's scan
HigherPriority(prio, max_priority) == prio > max_priority

RECURSIVE scanL1(_, _, _, _)
scanL1(list, et, min_burst, result) ==
    IF list = <<>> THEN result
    ELSE IF ShorterBurst(et[Head(list)], min_burst)
         THEN scanL1(Tail(list), et, et[Head(list)], Head(list))
         ELSE scanL1(Tail(list), et, min_burst, result)

findNextL1(list, et) == scanL1(list, et, IntMax, NULL)

RECURSIVE scanL2(_, _, _, _)
scanL2(list, pr, max_priority, result) ==
    IF list = <<>> THEN result
    ELSE IF HigherPriority(pr[Head(list)], max_priority)
         THEN scanL2(Tail(list), pr, pr[Head(list)], Head(list))
         ELSE scanL2(Tail(list), pr, max_priority, result)

findNextL2(list, pr) == scanL2(list, pr, MaxPriorityInit, NULL)

\* findNextL3 taking the most recent entry instead of the front
findNextL3_Last(list) == IF list = <<>> THEN NULL ELSE list[Len(list)]

findNextL3(list) == IF list = <<>> THEN NULL ELSE Head(list)

\* The band findNext takes its result from (0: none), given the lists and the
\* execution times and priorities at the scan.
findNextBand(q, et, pr) ==
    IF findNextL1(q[1], et) # NULL THEN 1
    ELSE IF findNextL2(q[2], pr) # NULL THEN 2
    ELSE IF findNextL3(q[3]) # NULL THEN 3
    ELSE 0

findNextResult(q, et, pr) ==
    IF findNextL1(q[1], et) # NULL THEN findNextL1(q[1], et)
    ELSE IF findNextL2(q[2], pr) # NULL THEN findNextL2(q[2], pr)
    ELSE findNextL3(q[3])

\* The lists after findNext took its result out of the band it chose.
findNextLists(q, et, pr) ==
    LET b == findNextBand(q, et, pr)
    IN  IF b = 0 THEN q
        ELSE [q EXCEPT ![b] = Remove(q[b], findNextResult(q, et, pr))]

findNextLog(q, et, pr) ==
    IF findNextBand(q, et, pr) = 0 THEN <<>>
    ELSE <<Removed(findNextResult(q, et, pr), findNextBand(q, et, pr))>>

\* ---- aging ----------------------------------------------------------------
\* the test of maintainQueues' scan of L[3]
PromoteToL2(prio) == prio >= L2Threshold

\* the test of maintainQueues' scan of L[2]
PromoteToL1(prio) == prio >= L1Threshold

maintainTemp1(q, pr) == SelectSeq(q[3], LAMBDA t : PromoteToL2(pr[t]))

\* the scan of L[2] missing the entries that just arrived from L[3]
maintainL2Scanned_OldOnly(q, pr) == q[2]

\* L[2] as the second scan of maintainQueues finds it
maintainL2Scanned(q, pr) == q[2] \o maintainTemp1(q, pr)

maintainTemp2(q, pr) ==
    SelectSeq(maintainL2Scanned(q, pr), LAMBDA t : PromoteToL1(pr[t]))

\* the lists with the promoted threads put at the head of L[1]
maintainLists_Front(q, pr) ==
    [i \in 1..3 |->
        IF i = 1 THEN maintainTemp2(q, pr) \o q[1]
        ELSE IF i = 2
             THEN RemoveAll(maintainL2Scanned(q, pr), maintainTemp2(q, pr))
             ELSE RemoveAll(q[3], maintainTemp1(q, pr))]

maintainLists(q, pr) ==
    [i \in 1..3 |->
        IF i = 1 THEN q[1] \o maintainTemp2(q, pr)
        ELSE IF i = 2
             THEN RemoveAll(maintainL2Scanned(q, pr), maintainTemp2(q, pr))
             ELSE RemoveAll(q[3], maintainTemp1(q, pr))]

\* the return value with the two tests in the other order
maintainReturn_L2First(q, pr) ==
    IF maintainTemp1(q, pr) # <<>> THEN 2
    ELSE IF maintainTemp2(q, pr) # <<>> THEN 1
    ELSE 0

maintainReturn(q, pr) ==
    IF maintainTemp2(q, pr) # <<>> THEN 1
    ELSE IF maintainTemp1(q, pr) # <<>> THEN 2
    ELSE 0

\* the records one scan of maintainQueues writes for the threads it moves
RECURSIVE promoteLog(_, _, _)
promoteLog(temp, from, pr) ==
    IF temp = <<>> THEN <<>>
    ELSE <<Removed(Head(temp), from), Inserting(Head(temp), LogBand(pr[Head(temp)]))>>
         \o promoteLog(Tail(temp), from, pr)

maintainLog(q, pr) ==
    promoteLog(maintainTemp1(q, pr), 3, pr) \o promoteLog(maintainTemp2(q, pr), 2, pr)

\* ---- admission ------------------------------------------------------------
\* ReadyToRun with strict comparisons
ReadyBand_Strict(prio) ==
    IF prio > L1Threshold THEN 1
    ELSE IF prio > L2Threshold THEN 2
    ELSE 3

\* the list ReadyToRun appends a thread of this priority to
ReadyBand(prio) ==
    IF prio >= L1Threshold THEN 1
    ELSE IF prio >= L2Threshold THEN 2
    ELSE 3

\* ---- the state after construction -----------------------------------------
\* Scheduler::Scheduler leaves the lists empty and the slot NULL.  The kernel
\* runs its first thread with interrupts disabled; the threads' priorities and
\* estimates are whatever their creators gave them.
Init ==
    /\ L = [i \in 1..3 |-> <<>>]
    /\ priority \in [Threads -> Priorities]
    /\ executionTime \in [Threads -> Estimates]
    /\ timeUsed = [t \in Threads |-> 0]
    /\ lastTick = [t \in Threads |-> 0]
    /\ tickWaited = [t \in Threads |-> 0]
    /\ currentThread = 1
    /\ status = [t \in Threads |-> IF t = 1 THEN RUNNING ELSE JUST_CREATED]
    /\ toBeDestroyed = NULL
    /\ destroyed = {}
    /\ deleteCount = [t \in Threads |-> 0]
    /\ dirty = FALSE
    /\ level = IntOff
    /\ inSwitch = FALSE
    /\ aborted = FALSE
    /\ op = "Init"
    /\ ret = NULL
    /\ log = <<>>

\* The scheduler is between two calls: no ASSERT has failed and no context
\* switch is under way.
Idle == ~aborted /\ ~inSwitch

\* ASSERT(...) failed inside operation o.
Abort(o) ==
    /\ aborted' = TRUE
    /\ op' = o
    /\ ret' = NULL
    /\ log' = <<>>
    /\ UNCHANGED <<L, priority, executionTime, timeUsed, status,
                   currentThread, toBeDestroyed, destroyed, level, inSwitch,
                   lastTick, tickWaited, deleteCount, dirty>>

\* ---- Scheduler::ReadyToRun ------------------------------------------------
ReadyToRun(thread) ==
    /\ Idle
    /\ thread \notin destroyed
    /\ Queued < MaxQueued
    /\ IF level # IntOff
       THEN Abort("ReadyToRun")
       ELSE /\ status' = [status EXCEPT ![thread] = READY]
            /\ L' = [L EXCEPT ![ReadyBand(priority[thread])] =
                                Append(@, thread)]
            /\ log' = <<Inserting(thread, LogBand(priority[thread]))>>
            /\ op' = "ReadyToRun"
            /\ ret' = NULL
            /\ UNCHANGED <<priority, executionTime, timeUsed, currentThread,
                           toBeDestroyed, destroyed, level, inSwitch, aborted,
                           lastTick, tickWaited, deleteCount, dirty>>

\* ---- Scheduler::FindNextToRun (findNext, preprocessThreads) ---------------
\* FindNextToRun with a preprocessThreads that does not reset the used time.
FindNextToRun_NoReset ==
    /\ Idle
    /\ IF level # IntOff
       THEN Abort("FindNextToRun")
       ELSE IF L[1] = <<>> /\ L[2] = <<>> /\ L[3] = <<>>
       THEN /\ op' = "FindNextToRun"
            /\ ret' = NULL
            /\ log' = <<>>
            /\ UNCHANGED <<L, priority, executionTime, timeUsed, status,
                           currentThread, toBeDestroyed, destroyed, level,
                           inSwitch, aborted, lastTick, tickWaited,
                           deleteCount, dirty>>
       ELSE \E newTime \in Estimates :
            /\ executionTime' =
                   [executionTime EXCEPT ![currentThread] = newTime]
            /\ lastTick' =
                   [lastTick EXCEPT ![currentThread] = timeUsed[currentThread]]
            /\ ret' = findNextResult(L, executionTime', priority)
            /\ L' = findNextLists(L, executionTime', priority)
            /\ log' = findNextLog(L, executionTime', priority)
            /\ op' = "FindNextToRun"
            /\ UNCHANGED <<timeUsed, priority, status, currentThread,
                           toBeDestroyed, destroyed, level, inSwitch, aborted,
                           tickWaited, deleteCount, dirty>>

\* preprocessThreads: the current thread recomputes its estimate (to a value
\* newTime its own formula yields), saves the time it used as its last tick
\* and its used time is reset.  With three empty lists findNext returns before
\* preprocessThreads.
FindNextToRun ==
    /\ Idle
    /\ IF level # IntOff
       THEN Abort("FindNextToRun")
       ELSE IF L[1] = <<>> /\ L[2] = <<>> /\ L[3] = <<>>
       THEN /\ op' = "FindNextToRun"
            /\ ret' = NULL
            /\ log' = <<>>
            /\ UNCHANGED <<L, priority, executionTime, timeUsed, status,
                           currentThread, toBeDestroyed, destroyed, level,
                           inSwitch, aborted, lastTick, tickWaited,
                           deleteCount, dirty>>
       ELSE \E newTime \in Estimates :
            /\ executionTime' =
                   [executionTime EXCEPT ![currentThread] = newTime]
            /\ lastTick' =
                   [lastTick EXCEPT ![currentThread] = timeUsed[currentThread]]
            /\ timeUsed' = [timeUsed EXCEPT ![currentThread] = 0]
            /\ ret' = findNextResult(L, executionTime', priority)
            /\ L' = findNextLists(L, executionTime', priority)
            /\ log' = findNextLog(L, executionTime', priority)
            /\ op' = "FindNextToRun"
            /\ UNCHANGED <<priority, status, currentThread, toBeDestroyed,
                           destroyed, level, inSwitch, aborted, tickWaited,
                           deleteCount, dirty>>

\* ---- Scheduler::CheckToBeDestroyed ----------------------------------------
DestroyedAfterCheck ==
    IF toBeDestroyed # NULL THEN destroyed \cup {toBeDestroyed} ELSE destroyed

\* delete toBeDestroyed, counted per handle
DeleteCountAfterCheck ==
    IF toBeDestroyed # NULL
    THEN [deleteCount EXCEPT ![toBeDestroyed] = @ + 1]
    ELSE deleteCount

CheckToBeDestroyed ==
    /\ Idle
    /\ destroyed' = DestroyedAfterCheck
    /\ deleteCount' = DeleteCountAfterCheck
    /\ toBeDestroyed' = NULL
    /\ op' = "CheckToBeDestroyed"
    /\ ret' = NULL
    /\ log' = <<>>
    /\ UNCHANGED <<L, priority, executionTime, timeUsed, status,
                   currentThread, level, inSwitch, aborted, lastTick,
                   tickWaited, dirty>>

\* ---- Scheduler::Run -------------------------------------------------------
\* Run without ASSERT(toBeDestroyed == NULL): a finishing thread overwrites
\* the slot.
Run_Overwrite(nextThread, finishing) ==
    /\ Idle
    /\ nextThread \notin destroyed
    /\ IF level # IntOff
       THEN Abort("Run")
       ELSE /\ toBeDestroyed' =
                   IF finishing THEN currentThread ELSE toBeDestroyed
            /\ currentThread' = nextThread
            /\ status' = [status EXCEPT ![nextThread] = RUNNING]
            /\ inSwitch' = TRUE
            /\ log' = <<Selected(nextThread), Replaced(currentThread)>>
            /\ op' = "Run"
            /\ ret' = NULL
            /\ UNCHANGED <<L, priority, executionTime, timeUsed, destroyed,
                           level, aborted, lastTick, tickWaited, deleteCount,
                           dirty>>

\* Up to SWITCH: the slot is written, the current thread replaced.
Run(nextThread, finishing) ==
    /\ Idle
    /\ nextThread \notin destroyed
    /\ IF level # IntOff \/ (finishing /\ toBeDestroyed # NULL)
       THEN Abort("Run")
       ELSE /\ toBeDestroyed' =
                   IF finishing THEN currentThread ELSE toBeDestroyed
            /\ currentThread' = nextThread
            /\ status' = [status EXCEPT ![nextThread] = RUNNING]
            /\ inSwitch' = TRUE
            /\ log' = <<Selected(nextThread), Replaced(currentThread)>>
            /\ op' = "Run"
            /\ ret' = NULL
            /\ UNCHANGED <<L, priority, executionTime, timeUsed, destroyed,
                           level, aborted, lastTick, tickWaited, deleteCount,
                           dirty>>

\* After SWITCH, on the side of the thread that now runs.
SwitchReturn ==
    /\ inSwitch
    /\ ~aborted
    /\ IF level # IntOff
       THEN Abort("SwitchReturn")
       ELSE /\ destroyed' = DestroyedAfterCheck
            /\ deleteCount' = DeleteCountAfterCheck
            /\ toBeDestroyed' = NULL
            /\ inSwitch' = FALSE
            /\ op' = "SwitchReturn"
            /\ ret' = NULL
            /\ log' = <<>>
            /\ UNCHANGED <<L, priority, executionTime, timeUsed, status,
                           currentThread, level, aborted, lastTick,
                           tickWaited, dirty>>

\* After SWITCH to a thread that runs for the first time: it does not continue
\* in Run but in its own start routine, outside the scheduler.
ThreadStart ==
    /\ inSwitch
    /\ ~aborted
    /\ inSwitch' = FALSE
    /\ op' = "env"
    /\ ret' = NULL
    /\ log' = <<>>
    /\ UNCHANGED <<L, priority, executionTime, timeUsed, status,
                   currentThread, toBeDestroyed, destroyed, level, aborted,
                   lastTick, tickWaited, deleteCount, dirty>>

\* ---- Scheduler::maintainQueues --------------------------------------------
maintainQueues ==
    /\ Idle
    /\ L' = maintainLists(L, priority)
    /\ ret' = maintainReturn(L, priority)
    /\ log' = maintainLog(L, priority)
    /\ op' = "maintainQueues"
    /\ UNCHANGED <<priority, executionTime, timeUsed, status, currentThread,
                   toBeDestroyed, destroyed, level, inSwitch, aborted,
                   lastTick, tickWaited, deleteCount, dirty>>

\* ---- Scheduler::incTickToThreads ------------------------------------------
\* One incTickWaited(1) for every list entry that is not the current thread.
incTick(q, waited, current) ==
    [t \in Threads |->
        IF t = current
        THEN waited[t]
        ELSE waited[t] + Occurrences(q[1], t) + Occurrences(q[2], t)
                       + Occurrences(q[3], t)]

incTickToThreads(amount) ==
    /\ Idle
    /\ \A t \in Threads : incTick(L, tickWaited, currentThread)[t] <= MaxWaited
    /\ tickWaited' = incTick(L, tickWaited, currentThread)
    /\ op' = "incTickToThreads"
    /\ ret' = NULL
    /\ log' = <<>>
    /\ UNCHANGED <<L, priority, executionTime, timeUsed, status,
                   currentThread, toBeDestroyed, destroyed, level, inSwitch,
                   aborted, lastTick, deleteCount, dirty>>

\* ---- Scheduler::getDirty, Scheduler::setDirty ------------------------------
getDirty ==
    /\ Idle
    /\ op' = "getDirty"
    /\ ret' = dirty
    /\ log' = <<>>
    /\ UNCHANGED <<L, priority, executionTime, timeUsed, status,
                   currentThread, toBeDestroyed, destroyed, level, inSwitch,
                   aborted, lastTick, tickWaited, deleteCount, dirty>>

setDirty(value) ==
    /\ Idle
    /\ dirty' = value
    /\ op' = "setDirty"
    /\ ret' = NULL
    /\ log' = <<>>
    /\ UNCHANGED <<L, priority, executionTime, timeUsed, status,
                   currentThread, toBeDestroyed, destroyed, level, inSwitch,
                   aborted, lastTick, tickWaited, deleteCount>>

\* ---- the callers of the scheduler -----------------------------------------
\* Spec lets the callers admit, select, dispatch without finishing, age and
\* change priorities, with interrupts disabled throughout as the scheduler
\* requires of them.  CheckToBeDestroyed on its own, a finishing Run, SetLevel,
\* UseTime, incTickToThreads and the dirty flag are left to the specifications
\* that follow Spec, each over the same variables with its own next-state
\* relation.
\* A thread's priority is changed from outside the scheduler.
SetPriority(thread, prio) ==
    /\ Idle
    /\ thread \notin destroyed
    /\ prio # priority[thread]
    /\ priority' = [priority EXCEPT ![thread] = prio]
    /\ op' = "env"
    /\ ret' = NULL
    /\ log' = <<>>
    /\ UNCHANGED <<L, executionTime, timeUsed, status, currentThread,
                   toBeDestroyed, destroyed, level, inSwitch, aborted,
                   lastTick, tickWaited, deleteCount, dirty>>

\* The interrupt level is changed from outside the scheduler.
SetLevel(newLevel) ==
    /\ Idle
    /\ newLevel # level
    /\ level' = newLevel
    /\ op' = "env"
    /\ ret' = NULL
    /\ log' = <<>>
    /\ UNCHANGED <<L, priority, executionTime, timeUsed, status,
                   currentThread, toBeDestroyed, destroyed, inSwitch, aborted,
                   lastTick, tickWaited, deleteCount, dirty>>

\* The current thread runs and accumulates used time.
UseTime(used) ==
    /\ Idle
    /\ used # timeUsed[currentThread]
    /\ used # 0
    /\ timeUsed' = [timeUsed EXCEPT ![currentThread] = used]
    /\ op' = "env"
    /\ ret' = NULL
    /\ log' = <<>>
    /\ UNCHANGED <<L, priority, executionTime, status, currentThread,
                   toBeDestroyed, destroyed, level, inSwitch, aborted,
                   lastTick, tickWaited, deleteCount, dirty>>

Next ==
    \/ \E thread \in Threads : ReadyToRun(thread)
    \/ FindNextToRun
    \/ \E nextThread \in Threads : Run(nextThread, FALSE)
    \/ SwitchReturn
    \/ maintainQueues
    \/ \E thread \in Threads, prio \in Priorities : SetPriority(thread, prio)

Spec == Init /\ [][Next]_vars

\* The dispatch on its own: threads give up the processor, finishing or not,
\* the thread switched to resumes in Run or starts in its own routine, and
\* CheckToBeDestroyed is also called from outside Run.
NextDispatch ==
    \/ \E nextThread \in Threads, finishing \in BOOLEAN :
           Run(nextThread, finishing)
    \/ SwitchReturn
    \/ ThreadStart
    \/ CheckToBeDestroyed

SpecDispatch == Init /\ [][NextDispatch]_vars

\* The interrupt level: every operation of the scheduler is called with
\* interrupts disabled or enabled; no thread finishes.
NextInterrupts ==
    \/ \E newLevel \in {IntOff, IntOn} : SetLevel(newLevel)
    \/ \E thread \in Threads : ReadyToRun(thread)
    \/ FindNextToRun
    \/ \E nextThread \in Threads : Run(nextThread, FALSE)
    \/ SwitchReturn
    \/ maintainQueues
    \/ \E amount \in Amounts : incTickToThreads(amount)
    \/ CheckToBeDestroyed

SpecInterrupts == Init /\ [][NextInterrupts]_vars

\* The admission on its own, for threads of any priority.
InitAdmission ==
    /\ L = [i \in 1..3 |-> <<>>]
    /\ priority \in [Threads -> AdmittedPriorities]
    /\ executionTime \in [Threads -> Estimates]
    /\ timeUsed = [t \in Threads |-> 0]
    /\ lastTick = [t \in Threads |-> 0]
    /\ tickWaited = [t \in Threads |-> 0]
    /\ currentThread = 1
    /\ status = [t \in Threads |-> IF t = 1 THEN RUNNING ELSE JUST_CREATED]
    /\ toBeDestroyed = NULL
    /\ destroyed = {}
    /\ deleteCount = [t \in Threads |-> 0]
    /\ dirty = FALSE
    /\ level = IntOff
    /\ inSwitch = FALSE
    /\ aborted = FALSE
    /\ op = "Init"
    /\ ret = NULL
    /\ log = <<>>

NextAdmission == \E thread \in Threads : ReadyToRun(thread)

SpecAdmission == InitAdmission /\ [][NextAdmission]_vars

\* The aging and the dirty flag: threads are admitted, their priorities
\* change, maintainQueues promotes them, and an observer reads and writes the
\* flag.
NextDirty ==
    \/ \E thread \in Threads : ReadyToRun(thread)
    \/ \E thread \in Threads, prio \in Priorities : SetPriority(thread, prio)
    \/ maintainQueues
    \/ getDirty
    \/ \E value \in BOOLEAN : setDirty(value)

SpecDirty == Init /\ [][NextDirty]_vars

\* The timer: threads are admitted and dispatched while incTickToThreads
\* advances the wait counters.
NextTick ==
    \/ \E thread \in Threads : ReadyToRun(thread)
    \/ \E nextThread \in Threads : Run(nextThread, FALSE)
    \/ SwitchReturn
    \/ \E amount \in Amounts : incTickToThreads(amount)

SpecTick == Init /\ [][NextTick]_vars

\* The accounting: threads are admitted, selected and dispatched while the
\* current thread uses time.
NextAccounting ==
    \/ \E thread \in Threads : ReadyToRun(thread)
    \/ FindNextToRun
    \/ \E nextThread \in Threads : Run(nextThread, FALSE)
    \/ SwitchReturn
    \/ \E used \in TimesUsed : UseTime(used)

SpecAccounting == Init /\ [][NextAccounting]_vars

\* ---- the claims -----------------------------------------------------------
\* the threads a list holds
EntriesOf(list) == {list[i] : i \in 1..Len(list)}

\* C1: ReadyToRun(thread) sets the thread's status to READY and appends it to
\* the tail of exactly one list, chosen by its priority at the call: L1 if
\* priority >= 100, L2 if 50 <= priority < 100, L3 if priority < 50; the other
\* two lists are left unchanged.
C1_ReadyToRunPlacement ==
    [][\A t \in Threads :
          (op' = "ReadyToRun" /\ ~aborted' /\ log'[1][2] = t) =>
          /\ status'[t] = READY
          /\ (priority[t] >= 100) =>
                L' = [L EXCEPT ![1] = Append(L[1], t)]
          /\ (priority[t] >= 50 /\ priority[t] < 100) =>
                L' = [L EXCEPT ![2] = Append(L[2], t)]
          /\ (priority[t] < 50) =>
                L' = [L EXCEPT ![3] = Append(L[3], t)]]_vars

\* A thread of priority 99 was appended behind another entry of L2.
C1_Witness ==
    /\ op = "ReadyToRun"
    /\ ~aborted
    /\ Len(L[2]) = 2
    /\ log[1][2] = L[2][2]
    /\ priority[L[2][2]] = 99
    /\ status[L[2][2]] = READY

\* C2: whenever FindNextToRun returns a thread, that thread is in none of L1,
\* L2, L3 when the call returns.
C2_ReturnedThreadNotQueued ==
    (op = "FindNextToRun" /\ ret # NULL) => ~InAnyQueue(ret)

\* C3: FindNextToRun takes a thread from L2 only if L1 was empty at the call,
\* from L3 only if L1 and L2 were both empty, and from L1 whenever L1 is not
\* empty.
C3_StrictBandOrder ==
    [][(op' = "FindNextToRun" /\ ~aborted') =>
          /\ (Len(L'[2]) < Len(L[2])) => (L[1] = <<>>)
          /\ (Len(L'[3]) < Len(L[3])) => (L[1] = <<>> /\ L[2] = <<>>)
          /\ (L[1] # <<>>) =>
                (ret' \in EntriesOf(L[1]) /\ Len(L'[1]) < Len(L[1]))]_vars

\* C4: when L1 is not empty, FindNextToRun returns the L1 entry with the
\* smallest execution-time estimate, the earliest of L1 among equal estimates.
C4_ShortestBurstFirst ==
    [][(op' = "FindNextToRun" /\ ~aborted' /\ L[1] # <<>>) =>
          \E i \in 1..Len(L[1]) :
             /\ ret' = L[1][i]
             /\ \A j \in 1..Len(L[1]) :
                   executionTime'[L[1][i]] <= executionTime'[L[1][j]]
             /\ \A j \in 1..(i - 1) :
                   executionTime'[L[1][i]] < executionTime'[L[1][j]]]_vars

\* C5: when L1 is empty and L2 is not, FindNextToRun returns the L2 entry with
\* the largest priority, the earliest of L2 among equal priorities.
C5_HighestPriorityFirst ==
    [][(op' = "FindNextToRun" /\ ~aborted' /\ L[1] = <<>> /\ L[2] # <<>>) =>
          \E i \in 1..Len(L[2]) :
             /\ ret' = L[2][i]
             /\ \A j \in 1..Len(L[2]) : priority[L[2][i]] >= priority[L[2][j]]
             /\ \A j \in 1..(i - 1) : priority[L[2][i]] > priority[L[2][j]]]_vars

\* C6: band 3 is first-in-first-out.  When L1 and L2 are empty FindNextToRun
\* returns the front of L3; and L3 changes only by an append to its tail, by
\* FindNextToRun taking its front (which it returns), or by maintainQueues
\* taking out the promoted entries and keeping the others in their order: so
\* of two entries of L3 left in place by maintainQueues the earlier appended is
\* returned first.
C6_Band3Fifo ==
    [][/\ (op' = "FindNextToRun" /\ ~aborted'
             /\ L[1] = <<>> /\ L[2] = <<>> /\ L[3] # <<>>) =>
          (ret' = Head(L[3]) /\ L'[3] = Tail(L[3]))
       /\ (L'[3] # L[3]) =>
          \/ op' = "ReadyToRun" /\ \E t \in Threads : L'[3] = Append(L[3], t)
          \/ op' = "FindNextToRun" /\ ret' = Head(L[3]) /\ L'[3] = Tail(L[3])
          \/ /\ op' = "maintainQueues"
             /\ L'[3] = SelectSeq(L[3], LAMBDA t : priority[t] < 50)]_vars

\* FindNextToRun took the front of an L3 that held another thread behind it.
C6_Witness ==
    /\ op = "FindNextToRun"
    /\ ret # NULL
    /\ log = <<Removed(ret, 3)>>
    /\ L[1] = <<>> /\ L[2] = <<>>
    /\ L[3] # <<>>
    /\ L[3][1] # ret

\* C7: FindNextToRun returns NULL if and only if L1, L2 and L3 are all empty
\* at the call.
C7_NullIffAllEmpty ==
    [][(op' = "FindNextToRun" /\ ~aborted') =>
          ((ret' = NULL) <=> (L[1] = <<>> /\ L[2] = <<>> /\ L[3] = <<>>))]_vars

\* C8: maintainQueues moves a thread only upward and only across a boundary
\* its priority has crossed: from L3 with priority >= 100 to L1, from L3 with
\* 50 <= priority < 100 to L2, from L2 with priority >= 100 to L1; every other
\* queued thread stays where it was; on return no L3 entry has priority >= 50
\* and no L2 entry has priority >= 100.
C8_PromotionOnlyUpward ==
    [][(op' = "maintainQueues") =>
          /\ \A t \in Threads :
                /\ (IsInList(L[3], t) /\ priority[t] >= 100) =>
                      (IsInList(L'[1], t) /\ ~IsInList(L'[2], t)
                         /\ ~IsInList(L'[3], t))
                /\ (IsInList(L[3], t) /\ priority[t] >= 50 /\ priority[t] < 100) =>
                      (IsInList(L'[2], t) /\ ~IsInList(L'[3], t))
                /\ (IsInList(L[2], t) /\ priority[t] >= 100) =>
                      (IsInList(L'[1], t) /\ ~IsInList(L'[2], t))
                /\ Occurrences(L'[1], t) >= Occurrences(L[1], t)
                /\ (priority[t] < 100) =>
                      /\ Occurrences(L'[1], t) = Occurrences(L[1], t)
                      /\ Occurrences(L'[2], t) >= Occurrences(L[2], t)
                /\ (priority[t] < 50) =>
                      /\ Occurrences(L'[2], t) = Occurrences(L[2], t)
                      /\ Occurrences(L'[3], t) = Occurrences(L[3], t)
                /\ Occurrences(L'[3], t) <= Occurrences(L[3], t)
                /\ (IsInList(L'[2], t) /\ ~IsInList(L[2], t)) =>
                      IsInList(L[3], t)
                /\ (IsInList(L'[1], t) /\ ~IsInList(L[1], t)) =>
                      (IsInList(L[2], t) \/ IsInList(L[3], t))
          /\ \A i \in 1..Len(L'[3]) : priority[L'[3][i]] < 50
          /\ \A i \in 1..Len(L'[2]) : priority[L'[2][i]] < 100]_vars

\* One call took a thread from L3 through L2 into L1 and left another in L3.
C8_Witness ==
    /\ op = "maintainQueues"
    /\ L[3] # <<>>
    /\ \E t \in Threads :
          /\ \E i \in 1..Len(log) : log[i] = Removed(t, 3)
          /\ \E i \in 1..Len(log) : log[i] = Removed(t, 2)
          /\ IsInList(L[1], t)
          /\ ~IsInList(L[3], t)

\* C9: maintainQueues returns 1 iff at least one thread was moved into L1,
\* 2 iff none was moved into L1 but at least one from L3 into L2, and 0 iff
\* no thread changed queue.
C9_MaintainReturn ==
    [][(op' = "maintainQueues") =>
          /\ (ret' = 1) <=> (Len(L'[1]) > Len(L[1]))
          /\ (ret' = 2) <=>
                (Len(L'[1]) = Len(L[1]) /\ Len(L'[3]) < Len(L[3]))
          /\ (ret' = 0) <=> (L' = L)
          /\ ret' \in {0, 1, 2}]_vars

\* One call moved a thread into L1 and another from L3 into L2, and returned 1.
C9_Witness ==
    /\ op = "maintainQueues"
    /\ ret = 1
    /\ \E t \in Threads :
          /\ \E i \in 1..Len(log) : log[i] = Removed(t, 3)
          /\ \A i \in 1..Len(log) : log[i] # Removed(t, 2)
          /\ IsInList(L[2], t)

\* C10: each thread handle occurs at most once across L1, L2 and L3 together.
C10_AtMostOnceQueued ==
    \A t \in Threads :
        Occurrences(L[1], t) + Occurrences(L[2], t) + Occurrences(L[3], t) <= 1

\* C11: the pending-destruction slot is never overwritten.  Run with
\* finishing set, called while the slot is occupied, aborts and leaves the
\* occupant, the current thread and the switch untouched; Run with finishing
\* clear never writes the slot.
C11_SlotNeverOverwritten ==
    [][\A nextThread \in Threads :
          /\ (Run(nextThread, TRUE) /\ toBeDestroyed # NULL) =>
                /\ aborted'
                /\ toBeDestroyed' = toBeDestroyed
                /\ currentThread' = currentThread
                /\ status' = status
                /\ ~inSwitch'
          /\ Run(nextThread, FALSE) => toBeDestroyed' = toBeDestroyed]_vars

C11_Witness ==
    /\ op = "Run"
    /\ aborted
    /\ level = IntOff
    /\ toBeDestroyed # NULL
    /\ toBeDestroyed # currentThread
    /\ ~inSwitch

\* C12: after CheckToBeDestroyed the slot is empty; a call on an occupied slot
\* deletes the occupant and nothing else, a call on an empty slot deletes
\* nothing; over any sequence of Run and CheckToBeDestroyed calls no thread
\* is deleted more than once.
C12_DestroyedExactlyOnce ==
    /\ [](\A t \in Threads : deleteCount[t] <= 1)
    /\ [][(op' \in {"CheckToBeDestroyed", "SwitchReturn"} /\ ~aborted') =>
            /\ toBeDestroyed' = NULL
            /\ \A t \in Threads :
                  deleteCount'[t] =
                      IF t = toBeDestroyed THEN deleteCount[t] + 1
                                           ELSE deleteCount[t]]_vars

\* C13: in Run(X, finishing) called by the current thread T, T is stored in
\* the slot before the switch and X is the current thread, marked RUNNING,
\* when the switch occurs; nothing is deleted before the switch; the thread
\* deleted afterwards, by the CheckToBeDestroyed of the resumed side, is the
\* stored thread T, and no thread is deleted while it is the current thread.
C13_DestroyedAfterSwitch ==
    [][/\ \A X \in Threads :
            (Run(X, TRUE) /\ ~aborted') =>
                /\ toBeDestroyed' = currentThread
                /\ currentThread' = X
                /\ status'[X] = RUNNING
                /\ inSwitch'
                /\ deleteCount' = deleteCount
       /\ \A t \in Threads :
            deleteCount'[t] # deleteCount[t] =>
                /\ op' \in {"SwitchReturn", "CheckToBeDestroyed"}
                /\ ~inSwitch'
                /\ t = toBeDestroyed
                /\ t # currentThread']_vars

\* C14: incTickToThreads(amount), for every amount, adds exactly 1 to the wait
\* counter of each thread that is in L1, L2 or L3 and is not the current
\* thread, leaves every other counter (the current thread's too, queued or
\* not) unchanged, and changes neither the lists' members nor their order.
C14_IncTickByOne ==
    [][op' = "incTickToThreads" =>
          /\ L' = L
          /\ \A t \in Threads :
                tickWaited'[t] =
                    IF InAnyQueue(t) /\ t # currentThread
                    THEN tickWaited[t] + 1
                    ELSE tickWaited[t]]_vars

\* C15: ReadyToRun, FindNextToRun, Run, maintainQueues, incTickToThreads and
\* CheckToBeDestroyed, entered while interrupts are enabled, abort and leave
\* the lists, the thread statuses, the current thread and the
\* pending-destruction slot unchanged.
C15_InterruptsEnabledAborts ==
    [][(level = IntOn /\ Idle
          /\ op' \in {"ReadyToRun", "FindNextToRun", "Run", "maintainQueues",
                      "incTickToThreads", "CheckToBeDestroyed"}) =>
          /\ aborted'
          /\ L' = L
          /\ status' = status
          /\ currentThread' = currentThread
          /\ toBeDestroyed' = toBeDestroyed]_vars

\* C16 as stated: whenever FindNextToRun returns, with a thread or with
\* NULL, the used time of the current thread is 0.
C16_UsedTimeZeroOnReturn ==
    [][(op' = "FindNextToRun" /\ ~aborted') =>
          timeUsed'[currentThread] = 0]_vars

\* C16, amended: a FindNextToRun call made while some list is non-empty
\* recomputes the current thread's estimate before any list is examined (the
\* selection sees the new estimate) and resets its used time, so that time is
\* 0 when the call returns, with a thread or with NULL; a call made while the
\* three lists are empty returns NULL and leaves estimate and used time.
C16_UsedTimeZeroUnlessEmpty ==
    [][(op' = "FindNextToRun" /\ ~aborted') =>
          IF L[1] = <<>> /\ L[2] = <<>> /\ L[3] = <<>>
          THEN /\ ret' = NULL
               /\ timeUsed' = timeUsed
               /\ executionTime' = executionTime
          ELSE /\ timeUsed'[currentThread] = 0
               /\ executionTime'[currentThread] \in Estimates
               /\ ret' = findNextResult(L, executionTime', priority)
               /\ \A t \in Threads \ {currentThread} :
                     /\ timeUsed'[t] = timeUsed[t]
                     /\ executionTime'[t] = executionTime[t]]_vars

C16_Witness ==
    /\ op = "FindNextToRun"
    /\ ~aborted
    /\ lastTick[currentThread] # 0
    /\ timeUsed[currentThread] = 0
    /\ \E t \in Threads : timeUsed[t] # 0

\* C17: the queue number in the record ReadyToRun writes ("is inserting into
\* queue L<n>") is the number of the list the thread is appended to, for
\* every priority.
C17_LoggedBandIsQueue ==
    [][\A t \in Threads :
          (op' = "ReadyToRun" /\ ~aborted' /\ log'[1][2] = t) =>
              \E b \in 1..3 :
                  /\ log'[1] = Inserting(t, b)
                  /\ L'[b] = Append(L[b], t)]_vars

\* C18: after a maintainQueues call that moves at least one thread the dirty
\* flag is set, it stays set until setDirty clears it, and getDirty returns
\* the flag.
C18_DirtyAfterPromotion ==
    [][/\ (op' = "maintainQueues" /\ L' # L) => dirty'
       /\ (dirty /\ ~dirty') => op' = "setDirty"
       /\ op' = "getDirty" => ret' = dirty]_vars

\* C19: maintainQueues neither adds nor drops a queued thread (each thread
\* has as many entries afterwards as before), the threads that stay in a list
\* keep their order, and the promoted threads are appended to the tail of
\* their destination in the order the scan of their source list met them.
C19_MaintainConserves ==
    [][(op' = "maintainQueues") =>
          /\ \A t \in Threads :
                Occurrences(L'[1], t) + Occurrences(L'[2], t)
                    + Occurrences(L'[3], t)
                = Occurrences(L[1], t) + Occurrences(L[2], t)
                    + Occurrences(L[3], t)
          /\ L'[3] = SelectSeq(L[3], LAMBDA t : priority[t] < 50)
          /\ L'[2] = SelectSeq(L[2], LAMBDA t : priority[t] < 100)
                       \o SelectSeq(L[3], LAMBDA t : priority[t] >= 50
                                                     /\ priority[t] < 100)
          /\ L'[1] = L[1]
                       \o SelectSeq(L[2], LAMBDA t : priority[t] >= 100)
                       \o SelectSeq(L[3], LAMBDA t : priority[t] >= 100)]_vars

C19_Witness ==
    /\ op = "maintainQueues"
    /\ ret = 1
    /\ Len(L[1]) = 2
    /\ L[1][1] # L[1][2]

\* C20: with k threads queued, each once, and no ReadyToRun or maintainQueues
\* in between, k consecutive FindNextToRun calls return k distinct threads
\* and the next call returns NULL.  Stated for one call of such a run: with
\* k > 0 it returns a queued thread and takes its entry away, leaving k - 1
\* threads queued, each once; with k = 0 it returns NULL.
C20_DrainReturnsEachOnce ==
    [][(op' = "FindNextToRun" /\ ~aborted' /\ C10_AtMostOnceQueued) =>
          IF Queued = 0
          THEN ret' = NULL /\ L' = L
          ELSE /\ ret' # NULL
               /\ InAnyQueue(ret')
               /\ \A i \in 1..3 : ~IsInList(L'[i], ret')
               /\ \A t \in Threads \ {ret'} :
                     \A i \in 1..3 :
                        Occurrences(L'[i], t) = Occurrences(L[i], t)]_vars
====
